---- MODULE Spec2Model ----
(***************************************************************************)
(* A model of pkg/api/api_impl.go: option validation, the plugin host and  *)
(* the sequencing of Build and Transform.                                  *)
(*                                                                         *)
(* The Resolver, the Scanner, the Compiler, the file system and the log    *)
(* are collaborators outside api_impl.go.  Scan and Compile are modelled   *)
(* by what api_impl.go can observe of them: the messages they add to the   *)
(* log and the output units Compile returns, both chosen                   *)
(* nondeterministically from small sets.                                   *)
(***************************************************************************)
EXTENDS Integers, Sequences, FiniteSets, TLC

VARIABLES
    pc,          \* position of the current call inside buildImpl / transformImpl
    call,        \* the arguments of the current call (BuildOptions and the environment)
    options,     \* config.Options as built so far
    log,         \* logging.Log: the messages added so far, in order
    hist,        \* which collaborators were invoked, whether the log held errors at each gate,
                 \* and the units Compile returned to a Transform call
    scanArgs,    \* the arguments ScanBundle was invoked with
    result,      \* BuildResult / TransformResult returned by the call
    filterState, \* filterCache and the matchers regexp.Compile has produced
    session,     \* the pluginImpl of the plugin whose setup callback is running
    obs,         \* observer of the plugin sessions: the last call made and the state before
                 \* it, and the matcher every successful registration of the process obtained
    adapter,     \* one invocation of a loader's Callback: the user callback and the result
    goroutines,  \* the concurrent compileFilter calls: position and locals of each
    filterMutex  \* sync.Mutex: the goroutine holding it, or 0

vars ==
    <<pc, call, options, log, hist, scanArgs, result, filterState, session, obs,
      adapter, goroutines, filterMutex>>

callVars == <<pc, call, options, log, hist, scanArgs, result>>

pluginVars == <<session, obs>>

adapterVars == <<adapter>>

goVars == <<goroutines, filterMutex>>

----------------------------------------------------------------------------
(* Bounds of the model *)

\* the largest number of entry points a Build call passes
MaxEntries == 2

----------------------------------------------------------------------------
(* logging.Log *)

Msg(kind, text, arg) == [kind |-> kind, text |-> text, arg |-> arg]

NewLog == <<>>

AddError(l, text, arg) == Append(l, Msg("error", text, arg))

HasErrors(l) == \E i \in 1..Len(l) : l[i].kind = "error"

Done(l) == l

\* the texts api_impl.go logs (the value a text cites is the message's arg)
ErrInvalidPath == "Invalid path"
ErrInvalidExt == "Invalid file extension"
ErrMultipleInputs == "Must use outdir when there are multiple input files"
ErrSplittingOutdir == "Must use outdir when code splitting is enabled"
ErrBothOut == "Cannot use both outfile and outdir"
ErrStdoutSourceMap == "Cannot use an external source map without an output path"
ErrStdoutMetafile == "Cannot use metafile without an output path"
ErrStdoutFileLoader == "Cannot use the file loader without an output path"
ErrFormatNoBundle == "Cannot use format without bundle"
ErrExternalNoBundle == "Cannot use external without bundle"
ErrSplittingFormat == "Splitting currently only works with the esm format"
ErrNameEmpty == "Name of plugin cannot be empty"
ErrNameTwice == "Name of plugin cannot be set multiple times"
ErrNoName == "Set the plugin name before adding a loader"
ErrNoFilter == "Loader is missing a filter"
ErrBadFilter == "Loader filter is not a valid regular expression"
ErrLinkedSourceMap == "Cannot transform with linked source maps"
ErrNeedSourcefile == "Must use sourcefile with sourcemap to set the original file name"
ErrDefineKey == "Invalid define key"
ErrDefineValue == "Invalid define value"
ErrPureFunction == "Invalid pure function"

\* the error-kind (or warning-kind) messages of l, as convertMessagesToPublic filters them
RECURSIVE convertMessagesToPublic(_, _)
convertMessagesToPublic(kind, msgs) ==
    IF msgs = <<>> THEN <<>>
    ELSE LET msg == Head(msgs)
             rest == convertMessagesToPublic(kind, Tail(msgs))
         IN IF msg.kind = kind
            THEN <<[Text |-> msg.text, Arg |-> msg.arg]>> \o rest
            ELSE rest

\* how many messages of l carry this text
RECURSIVE CountText(_, _)
CountText(l, text) ==
    IF l = <<>> THEN 0
    ELSE (IF Head(l).text = text THEN 1 ELSE 0) + CountText(Tail(l), text)

ErrorCount(l) == Len(convertMessagesToPublic("error", l))

----------------------------------------------------------------------------
(* The closed enumerations of the public API and their internal values *)

Platforms == {"PlatformBrowser", "PlatformNode"}
Formats == {"FormatDefault", "FormatIIFE", "FormatCommonJS", "FormatESModule"}
SourceMaps == {"SourceMapNone", "SourceMapLinked", "SourceMapInline", "SourceMapExternal"}

validatePlatform(value) ==
    CASE value = "PlatformBrowser" -> "config.PlatformBrowser"
      [] value = "PlatformNode" -> "config.PlatformNode"

validateFormat(value) ==
    CASE value = "FormatDefault" -> "config.FormatPreserve"
      [] value = "FormatIIFE" -> "config.FormatIIFE"
      [] value = "FormatCommonJS" -> "config.FormatCommonJS"
      [] value = "FormatESModule" -> "config.FormatESModule"

validateSourceMap(value) ==
    CASE value = "SourceMapNone" -> "config.SourceMapNone"
      [] value = "SourceMapLinked" -> "config.SourceMapLinkedWithComment"
      [] value = "SourceMapInline" -> "config.SourceMapInline"
      [] value = "SourceMapExternal" -> "config.SourceMapExternalWithoutComment"

validateLoader(value) ==
    CASE value = "LoaderNone" -> "config.LoaderNone"
      [] value = "LoaderJS" -> "config.LoaderJS"
      [] value = "LoaderJSX" -> "config.LoaderJSX"
      [] value = "LoaderTS" -> "config.LoaderTS"
      [] value = "LoaderTSX" -> "config.LoaderTSX"
      [] value = "LoaderJSON" -> "config.LoaderJSON"
      [] value = "LoaderText" -> "config.LoaderText"
      [] value = "LoaderBase64" -> "config.LoaderBase64"
      [] value = "LoaderDataURL" -> "config.LoaderDataURL"
      [] value = "LoaderFile" -> "config.LoaderFile"
      [] value = "LoaderBinary" -> "config.LoaderBinary"

----------------------------------------------------------------------------
(* The file system (fs.FS) as api_impl.go uses it.  An fs value is         *)
(* [kind, cwdOk]: fs.RealFS() resolves a relative path against the working *)
(* directory, which the process may have lost (cwdOk = FALSE); Abs then    *)
(* fails and returns the empty path.                                       *)

RealFS(cwdOk) == [kind |-> "real", cwdOk |-> cwdOk]
MockFS == [kind |-> "mock", cwdOk |-> TRUE]

FsAbs(fs, p) ==
    IF fs.cwdOk THEN [path |-> "/cwd/" \o p, ok |-> TRUE]
    ELSE [path |-> "", ok |-> FALSE]

FsDir(fs, p) == "/cwd"

FsCwd(fs) == "/cwd"

validatePath(l, fs, relPath) ==
    IF relPath = "" THEN [log |-> l, val |-> ""]
    ELSE LET abs == FsAbs(fs, relPath)
         IN [log |-> IF ~abs.ok THEN AddError(l, ErrInvalidPath, <<relPath>>) ELSE l,
             val |-> abs.path]

----------------------------------------------------------------------------
(* File extensions are sequences of characters, as the code indexes them *)

ExtJS == <<".", "j", "s">>
ExtJSON == <<".", "j", "s", "o", "n">>
ExtPNG == <<".", "p", "n", "g">>
ExtNoDot == <<"j", "s">>

\* a Go slice that may be nil
NilSlice == [isNil |-> TRUE, items |-> <<>>]
Slice(items) == [isNil |-> FALSE, items |-> items]

RECURSIVE validateResolveExtensionsLoop(_, _)
validateResolveExtensionsLoop(l, order) ==
    IF order = <<>> THEN l
    ELSE LET ext == Head(order)
             l1 == IF Len(ext) < 2 \/ ext[1] # "."
                   THEN AddError(l, ErrInvalidExt, ext)
                   ELSE l
         IN validateResolveExtensionsLoop(l1, Tail(order))

DefaultResolveExtensions == <<ExtJS, ExtJSON>>

validateResolveExtensions(l, order) ==
    IF order.isNil THEN [log |-> l, val |-> DefaultResolveExtensions]
    ELSE [log |-> validateResolveExtensionsLoop(l, order.items), val |-> order.items]

DefaultExtensionToLoaderMap == (ExtJS :> "config.LoaderJS") @@ (ExtJSON :> "config.LoaderJSON")

\* iter is the order in which Go's range happens to visit the keys of the map
RECURSIVE validateLoadersLoop(_, _, _, _)
validateLoadersLoop(l, res, loaders, iter) ==
    IF iter = <<>> THEN [log |-> l, val |-> res]
    ELSE LET ext == Head(iter)
             l1 == IF Len(ext) < 2 \/ ext[1] # "." \/ ext[Len(ext)] = "."
                   THEN AddError(l, ErrInvalidExt, ext)
                   ELSE l
         IN validateLoadersLoop(l1, (ext :> validateLoader(loaders[ext])) @@ res,
                                loaders, Tail(iter))

validateLoaders(l, loaders, iter) ==
    validateLoadersLoop(l, DefaultExtensionToLoaderMap, loaders, iter)

\* the orders in which a map with these keys can be iterated
Iterations(keys) ==
    {s \in [1..Cardinality(keys) -> keys] : \A i, j \in DOMAIN s : i # j => s[i] # s[j]}

----------------------------------------------------------------------------
(* External modules *)

\* resolver.IsPackagePath: a path that is neither absolute nor relative
IsPackagePath(path) == path \notin {"./ext", "/abs", ".", ".."}

RECURSIVE validateExternalsLoop(_, _, _, _)
validateExternalsLoop(l, res, fs, paths) ==
    IF paths = <<>> THEN [log |-> l, val |-> res]
    ELSE LET path == Head(paths)
         IN IF IsPackagePath(path)
            THEN validateExternalsLoop(l, [res EXCEPT !.NodeModules = @ \cup {path}],
                                       fs, Tail(paths))
            ELSE LET abs == validatePath(l, fs, path)
                 IN validateExternalsLoop(abs.log,
                        IF abs.val # "" THEN [res EXCEPT !.AbsPaths = @ \cup {abs.val}] ELSE res,
                        fs, Tail(paths))

validateExternals(l, fs, paths) ==
    validateExternalsLoop(l, [NodeModules |-> {}, AbsPaths |-> {}], fs, paths)

----------------------------------------------------------------------------
(* validateDefines.  A key is a sequence of characters, as strings.Split reads it; a  *)
(* value is a string that the lexer and the JSON parser classify.                    *)

\* strings.Split(key, "."): the segments between the dots, empty ones included
RECURSIVE SplitDots(_, _)
SplitDots(key, part) ==
    IF key = <<>> THEN <<part>>
    ELSE IF Head(key) = "." THEN <<part>> \o SplitDots(Tail(key), <<>>)
    ELSE SplitDots(Tail(key), Append(part, Head(key)))

\* lexer.IsIdentifier on a segment: not empty, no digit in front, letters and digits only
IsIdentifier(part) ==
    /\ Len(part) > 0
    /\ part[1] \in {"a", "b"}
    /\ \A i \in DOMAIN part : part[i] \in {"a", "b", "1", "2"}

\* lexer.IsIdentifier and lexer.Keywords on the values of the model
IdentifierValues == {"b", "null"}
KeywordValues == {"null"}

\* parser.ParseJSON on the values of the model: the kind of expression, or a failure
ParseJSON(value) ==
    CASE value = "null" -> [ok |-> TRUE, data |-> "ENull"]
      [] value = "[1]" -> [ok |-> TRUE, data |-> "EArray"]
      [] OTHER -> [ok |-> FALSE, data |-> ""]

\* config.DefineData; DefineFunc is nil, a reference to an identifier or a literal atom
NilDefineFunc == [kind |-> "nil", of |-> ""]
ZeroDefineData == [DefineFunc |-> NilDefineFunc, CallCanBeUnwrappedIfUnused |-> FALSE]

\* lines 268-273 and 317-322: one error for each segment that is not an identifier; the
\* continue statement belongs to this inner loop
RECURSIVE validatePartsLoop(_, _, _, _)
validatePartsLoop(l, parts, text, key) ==
    IF parts = <<>> THEN l
    ELSE validatePartsLoop(IF ~IsIdentifier(Head(parts)) THEN AddError(l, text, <<key>>) ELSE l,
                           Tail(parts), text, key)

\* function update: the map with key set to data
MapSet(map, key, data) == [k \in DOMAIN map \cup {key} |-> IF k = key THEN data ELSE map[k]]

\* lines 275-312: the rewrite for one value
validateDefineValue(st, key, value) ==
    IF value \in IdentifierValues /\ value \notin KeywordValues
    THEN [st EXCEPT !.rawDefines = MapSet(@, key,
              [ZeroDefineData EXCEPT !.DefineFunc = [kind |-> "identifier", of |-> value]])]
    ELSE LET j == ParseJSON(value)
         IN IF ~j.ok THEN [st EXCEPT !.log = AddError(@, ErrDefineValue, <<value>>)]
            ELSE IF j.data \in {"ENull", "EBoolean", "EString", "ENumber"}
            THEN [st EXCEPT !.rawDefines = MapSet(@, key,
                      [ZeroDefineData EXCEPT !.DefineFunc = [kind |-> "literal", of |-> j.data]])]
            ELSE [st EXCEPT !.log = AddError(@, ErrDefineValue, <<value>>)]

\* lines 266-313: the defines, in the order iter in which the map is ranged over
RECURSIVE validateDefinesLoop(_, _, _)
validateDefinesLoop(st, defines, iter) ==
    IF iter = <<>> THEN st
    ELSE LET key == Head(iter)
             l == validatePartsLoop(st.log, SplitDots(key, <<>>), ErrDefineKey, key)
         IN validateDefinesLoop(validateDefineValue([st EXCEPT !.log = l], key, defines[key]),
                                defines, Tail(iter))

\* a pure-function loop that starts every entry afresh
RECURSIVE validatePureFnsLoopFresh(_, _)
validatePureFnsLoopFresh(st, pureFns) ==
    IF pureFns = <<>> THEN st
    ELSE LET key == Head(pureFns)
             l == validatePartsLoop(st.log, SplitDots(key, <<>>), ErrPureFunction, key)
         IN validatePureFnsLoopFresh(
                [log |-> l,
                 rawDefines |-> MapSet(st.rawDefines, key,
                     [ZeroDefineData EXCEPT !.CallCanBeUnwrappedIfUnused = TRUE])],
                Tail(pureFns))

\* lines 315-328: the pure-function paths, merged with the defines
RECURSIVE validatePureFnsLoop(_, _)
validatePureFnsLoop(st, pureFns) ==
    IF pureFns = <<>> THEN st
    ELSE LET key == Head(pureFns)
             l == validatePartsLoop(st.log, SplitDots(key, <<>>), ErrPureFunction, key)
             define == IF key \in DOMAIN st.rawDefines THEN st.rawDefines[key]
                       ELSE ZeroDefineData
         IN validatePureFnsLoop(
                [log |-> l,
                 rawDefines |-> MapSet(st.rawDefines, key,
                     [define EXCEPT !.CallCanBeUnwrappedIfUnused = TRUE])],
                Tail(pureFns))

\* the result is the log and the rawDefines handed to config.ProcessDefines, or nil
validateDefines(l, defines, iter, pureFns) ==
    IF Cardinality(DOMAIN defines) = 0 /\ Len(pureFns) = 0
    THEN [log |-> l, isNil |-> TRUE, rawDefines |-> <<>>]
    ELSE LET st == validatePureFnsLoop(
                       validateDefinesLoop([log |-> l, rawDefines |-> <<>>], defines, iter),
                       pureFns)
         IN [log |-> st.log, isNil |-> FALSE, rawDefines |-> st.rawDefines]

----------------------------------------------------------------------------
(* Plugin API: pluginImpl, the filter cache and loadPlugins *)

\* the patterns regexp.Compile accepts, among those the model registers
ValidPatterns == {"\\.yaml$", "\\.svg$"}

NilRegexp == [pattern |-> "", serial |-> 0]

\* filterCache is the (possibly nil) map; made counts the matchers compiled per pattern
NoFilters == [cache |-> <<>>, made |-> [p \in ValidPatterns |-> 0]]

\* regexp.Compile: a new matcher object for a valid pattern, an error otherwise
RegexpCompile(fst, filter) ==
    IF filter \in ValidPatterns
    THEN [ok |-> TRUE, re |-> [pattern |-> filter, serial |-> fst.made[filter] + 1]]
    ELSE [ok |-> FALSE, re |-> NilRegexp]

\* a compileFilter that never looks a pattern up and compiles it on every call
compileFilterNoLookup(fst, filter) ==
    IF filter = "" THEN [result |-> NilRegexp, fst |-> fst]
    ELSE LET c == RegexpCompile(fst, filter)
         IN IF ~c.ok THEN [result |-> NilRegexp, fst |-> fst]
            ELSE [result |-> c.re,
                  fst |-> [cache |-> (filter :> c.re) @@ fst.cache,
                           made |-> [fst.made EXCEPT ![filter] = @ + 1]]]

\* compileFilter when no other goroutine runs between its two critical sections
compileFilter(fst, filter) ==
    IF filter = "" THEN [result |-> NilRegexp, fst |-> fst]
    ELSE IF filter \in DOMAIN fst.cache
         THEN [result |-> fst.cache[filter], fst |-> fst]
         ELSE LET c == RegexpCompile(fst, filter)
              IN IF ~c.ok THEN [result |-> NilRegexp, fst |-> fst]
                 ELSE [result |-> c.re,
                       fst |-> [cache |-> (filter :> c.re) @@ fst.cache,
                                made |-> [fst.made EXCEPT ![filter] = @ + 1]]]

\* a SetName that logs the second naming and takes the new name all the same
SetNameOverwrite(impl, name) ==
    IF name = "" THEN [impl EXCEPT !.log = AddError(@, ErrNameEmpty, <<>>)]
    ELSE IF impl.name # "" THEN [impl EXCEPT !.log = AddError(@, ErrNameTwice, <<>>),
                                             !.name = name]
    ELSE [impl EXCEPT !.name = name]

NewPluginImpl(l) == [log |-> l, name |-> "", loaders |-> <<>>]

SetName(impl, name) ==
    IF name = "" THEN [impl EXCEPT !.log = AddError(@, ErrNameEmpty, <<>>)]
    ELSE IF impl.name # "" THEN [impl EXCEPT !.log = AddError(@, ErrNameTwice, <<>>)]
    ELSE [impl EXCEPT !.name = name]

\* an AddLoader that reports a pattern that does not compile and installs the loader anyway
AddLoaderKeepInvalid(impl, fst, opts, callback) ==
    IF impl.name = ""
    THEN [impl |-> [impl EXCEPT !.log = AddError(@, ErrNoName, <<>>)], fst |-> fst]
    ELSE IF opts.Filter = ""
    THEN [impl |-> [impl EXCEPT !.log = AddError(@, ErrNoFilter, <<impl.name>>)], fst |-> fst]
    ELSE LET f == compileFilter(fst, opts.Filter)
         IN [impl |-> [impl EXCEPT
                 !.log = IF f.result = NilRegexp
                         THEN AddError(@, ErrBadFilter, <<impl.name, opts.Filter>>) ELSE @,
                 !.loaders = Append(@, [Name |-> impl.name, Filter |-> f.result,
                                        MatchInternal |-> opts.MatchInternal,
                                        Callback |-> callback])],
             fst |-> f.fst]

\* opts is LoaderOptions; the result is the session and the filter cache afterwards
AddLoader(impl, fst, opts, callback) ==
    IF impl.name = ""
    THEN [impl |-> [impl EXCEPT !.log = AddError(@, ErrNoName, <<>>)], fst |-> fst]
    ELSE IF opts.Filter = ""
    THEN [impl |-> [impl EXCEPT !.log = AddError(@, ErrNoFilter, <<impl.name>>)], fst |-> fst]
    ELSE LET f == compileFilter(fst, opts.Filter)
         IN IF f.result = NilRegexp
            THEN [impl |-> [impl EXCEPT !.log = AddError(@, ErrBadFilter, <<impl.name, opts.Filter>>)],
                  fst |-> f.fst]
            ELSE [impl |-> [impl EXCEPT !.loaders = Append(@,
                                [Name |-> impl.name, Filter |-> f.result,
                                 MatchInternal |-> opts.MatchInternal, Callback |-> callback])],
                  fst |-> f.fst]

\* A plugin (a func(Plugin)) is the sequence of calls it makes on its session
CallSetName(name) ==
    [op |-> "SetName", name |-> name, Filter |-> "", MatchInternal |-> FALSE, callback |-> ""]
CallAddLoader(filter, matchInternal, callback) ==
    [op |-> "AddLoader", name |-> "", Filter |-> filter, MatchInternal |-> matchInternal,
     callback |-> callback]

ApplyCall(s, c) ==
    IF c.op = "SetName" THEN [impl |-> SetName(s.impl, c.name), fst |-> s.fst]
    ELSE AddLoader(s.impl, s.fst, c, c.callback)

RECURSIVE RunPlugin(_, _)
RunPlugin(s, calls) ==
    IF calls = <<>> THEN s ELSE RunPlugin(ApplyCall(s, Head(calls)), Tail(calls))

\* st is [options, log, fst]: the Options being built, the log and the filter cache
RECURSIVE loadPlugins(_, _)
loadPlugins(st, plugins) ==
    IF plugins = <<>> THEN st
    ELSE LET s == RunPlugin([impl |-> NewPluginImpl(st.log), fst |-> st.fst], Head(plugins))
         IN loadPlugins([options |-> [st.options EXCEPT !.LoaderPlugins = @ \o s.impl.loaders],
                         log |-> s.impl.log,
                         fst |-> s.fst],
                        Tail(plugins))

----------------------------------------------------------------------------
(* Plugin API: the Callback that AddLoader installs (lines 724-746) *)

NilLocation == [isNil |-> TRUE]
Location(file, line, column) ==
    [isNil |-> FALSE, File |-> file, Line |-> line, Column |-> column, Length |-> 0,
     LineText |-> ""]

\* Go compares strings byte by byte; the strings of the model in that order
StringOrder == <<"", "A", "B", "a.js", "b.js">>
StringLess(x, y) ==
    \E i, j \in DOMAIN StringOrder : StringOrder[i] = x /\ StringOrder[j] = y /\ i < j

\* a Less that compares the file of two located messages and nothing else
LessFileOnly(a, i, j) ==
    LET ai == a[i].Location
        aj == a[j].Location
    IN IF ai.isNil \/ aj.isNil THEN ai.isNil /\ ~aj.isNil
       ELSE StringLess(ai.File, aj.File)

\* sortableMsgs.Less
Less(a, i, j) ==
    LET ai == a[i].Location
        aj == a[j].Location
    IN IF ai.isNil \/ aj.isNil THEN ai.isNil /\ ~aj.isNil
       ELSE IF ai.File # aj.File THEN StringLess(ai.File, aj.File)
       ELSE IF ai.Line # aj.Line THEN ai.Line < aj.Line
       ELSE IF ai.Column # aj.Column THEN ai.Column < aj.Column
       ELSE StringLess(a[i].Text, a[j].Text)

\* sortableMsgs.Swap
Swap(a, i, j) == [a EXCEPT ![i] = a[j], ![j] = a[i]]

\* sort.Sort on a slice of at most 12 elements is an insertion sort driven by Less and
\* Swap: element i moves down while it is Less than its predecessor
RECURSIVE insertionSortInner(_, _)
insertionSortInner(a, j) ==
    IF j > 1 /\ Less(a, j, j - 1) THEN insertionSortInner(Swap(a, j, j - 1), j - 1) ELSE a

RECURSIVE insertionSort(_, _)
insertionSort(a, i) ==
    IF i > Len(a) THEN a ELSE insertionSort(insertionSortInner(a, i), i + 1)

sortSort(a) == insertionSort(a, 2)

\* appends the messages, in their order, with the given kind
RECURSIVE convertMessagesToInternal(_, _, _)
convertMessagesToInternal(msgs, kind, messages) ==
    IF messages = <<>> THEN msgs
    ELSE convertMessagesToInternal(
             Append(msgs, [Kind |-> kind, Text |-> Head(messages).Text,
                           Location |-> Head(messages).Location]),
             kind, Tail(messages))

\* the Loader values of the public API; any other value makes validateLoader panic
Loaders ==
    {"LoaderNone", "LoaderJS", "LoaderJSX", "LoaderTS", "LoaderTSX", "LoaderJSON", "LoaderText",
     "LoaderBase64", "LoaderDataURL", "LoaderFile", "LoaderBinary"}

NilError == ""

\* no Callback has been invoked
NoAdapter == [none |-> TRUE]

\* the zero config.LoaderResult
ZeroLoaderResult ==
    [panic |-> FALSE, LoaderError |-> NilError, Contents |-> "",
     Loader |-> "config.LoaderNone", Msgs |-> <<>>]

\* a Callback that keeps what the user callback returned alongside its failure
CallbackKeepsResponse(callback, args) ==
    LET r == callback[args.Path]
    IN [panic |-> FALSE, LoaderError |-> r.err, Contents |-> r.response.Contents,
        Loader |-> "config.LoaderNone",
        Msgs |-> sortSort(convertMessagesToInternal(
                     convertMessagesToInternal(<<>>, "error", r.response.Errors),
                     "warning", r.response.Warnings))]

\* lines 724-746.  callback is the user's func(LoaderArgs) (LoaderResult, error) as the
\* function from the path to what it returns
Callback(callback, args) ==
    LET r == callback[args.Path]
        response == r.response
    IN IF r.err # NilError THEN [ZeroLoaderResult EXCEPT !.LoaderError = r.err]
       ELSE IF response.Loader \notin Loaders THEN [ZeroLoaderResult EXCEPT !.panic = TRUE]
       ELSE [ZeroLoaderResult EXCEPT
               !.Contents = response.Contents,
               !.Loader = validateLoader(response.Loader),
               !.Msgs = IF Len(response.Errors) + Len(response.Warnings) > 0
                        THEN sortSort(convertMessagesToInternal(
                                 convertMessagesToInternal(<<>>, "error", response.Errors),
                                 "warning", response.Warnings))
                        ELSE <<>>]

----------------------------------------------------------------------------
(* buildImpl: validation *)

NoStdin == [isNil |-> TRUE, Loader |-> "LoaderNone", ResolveDir |-> ""]

RECURSIVE validateEntryPoints(_, _, _, _)
validateEntryPoints(l, paths, fs, entryPoints) ==
    IF entryPoints = <<>> THEN [log |-> l, val |-> paths]
    ELSE LET p == validatePath(l, fs, Head(entryPoints))
         IN validateEntryPoints(p.log, Append(paths, p.val), fs, Tail(entryPoints))

\* lines 415-438: the Options literal, its fields evaluated in source order
buildOptionsLiteral(l, buildOpts, realFS, iter) ==
    LET outfile == validatePath(l, realFS, buildOpts.Outfile)
        outdir == validatePath(outfile.log, realFS, buildOpts.Outdir)
        metafile == validatePath(outdir.log, realFS, buildOpts.Metafile)
        loaders == validateLoaders(metafile.log, buildOpts.Loaders, iter)
        order == validateResolveExtensions(loaders.log, buildOpts.ResolveExtensions)
        externals == validateExternals(order.log, realFS, buildOpts.Externals)
    IN [log |-> externals.log,
        options |-> [Platform |-> validatePlatform(buildOpts.Platform),
                     SourceMap |-> validateSourceMap(buildOpts.Sourcemap),
                     IsBundling |-> buildOpts.Bundle,
                     CodeSplitting |-> buildOpts.Splitting,
                     OutputFormat |-> validateFormat(buildOpts.Format),
                     AbsOutputFile |-> outfile.val,
                     AbsOutputDir |-> outdir.val,
                     AbsMetadataFile |-> metafile.val,
                     ExtensionToLoader |-> loaders.val,
                     ExtensionOrder |-> order.val,
                     ExternalModules |-> externals.val,
                     WriteToStdout |-> FALSE,
                     Stdin |-> NoStdin,
                     LoaderPlugins |-> <<>>]]

\* lines 443-452
buildStdin(st, buildOpts, realFS) ==
    IF buildOpts.Stdin.isNil THEN st
    ELSE LET dir == validatePath(st.log, realFS, buildOpts.Stdin.ResolveDir)
         IN [log |-> dir.log,
             options |-> [st.options EXCEPT !.Stdin =
                             [isNil |-> FALSE,
                              Loader |-> validateLoader(buildOpts.Stdin.Loader),
                              ResolveDir |-> dir.val]]]

\* a count that forgets the stdin unit
entryPathCountNoStdin(buildOpts) == Len(buildOpts.EntryPoints)

entryPathCount(buildOpts) ==
    Len(buildOpts.EntryPoints) + (IF buildOpts.Stdin.isNil THEN 0 ELSE 1)

\* stdout checks that stop at the first violation
buildStdoutChecksFirstOnly(st, realFS) ==
    LET o == [st.options EXCEPT !.WriteToStdout = TRUE, !.AbsOutputDir = FsCwd(realFS)]
    IN IF o.SourceMap # "config.SourceMapNone" /\ o.SourceMap # "config.SourceMapInline"
       THEN [log |-> AddError(st.log, ErrStdoutSourceMap, <<>>), options |-> o]
       ELSE IF o.AbsMetadataFile # ""
       THEN [log |-> AddError(st.log, ErrStdoutMetafile, <<>>), options |-> o]
       ELSE IF \E ext \in DOMAIN o.ExtensionToLoader :
                    o.ExtensionToLoader[ext] = "config.LoaderFile"
       THEN [log |-> AddError(st.log, ErrStdoutFileLoader, <<>>), options |-> o]
       ELSE [log |-> st.log, options |-> o]

\* lines 468-484: what is forbidden when writing to stdout
buildStdoutChecks(st, realFS) ==
    LET o == [st.options EXCEPT !.WriteToStdout = TRUE]
        l1 == IF o.SourceMap # "config.SourceMapNone" /\ o.SourceMap # "config.SourceMapInline"
              THEN AddError(st.log, ErrStdoutSourceMap, <<>>) ELSE st.log
        l2 == IF o.AbsMetadataFile # "" THEN AddError(l1, ErrStdoutMetafile, <<>>) ELSE l1
        l3 == IF \E ext \in DOMAIN o.ExtensionToLoader :
                     o.ExtensionToLoader[ext] = "config.LoaderFile"
              THEN AddError(l2, ErrStdoutFileLoader, <<>>) ELSE l2
    IN [log |-> l3, options |-> [o EXCEPT !.AbsOutputDir = FsCwd(realFS)]]

\* a destination chain that derives the directory from outfile before it looks for the conflict
buildOutputPathDeriveFirst(st, count, realFS) ==
    LET o == st.options
    IN IF o.AbsOutputDir = "" /\ count > 1
       THEN [st EXCEPT !.log = AddError(@, ErrMultipleInputs, <<>>)]
       ELSE IF o.AbsOutputDir = "" /\ o.CodeSplitting
       THEN [st EXCEPT !.log = AddError(@, ErrSplittingOutdir, <<>>)]
       ELSE IF o.AbsOutputFile # ""
       THEN [st EXCEPT !.options.AbsOutputDir = FsDir(realFS, o.AbsOutputFile)]
       ELSE IF o.AbsOutputDir = ""
       THEN buildStdoutChecks(st, realFS)
       ELSE st

\* lines 454-485: the output destination
\* a destination chain that turns write-to-stdout on when an output file is given
buildOutputPathFileAndStdout(st, count, realFS) ==
    LET o == st.options
    IN IF o.AbsOutputDir = "" /\ count > 1
       THEN [st EXCEPT !.log = AddError(@, ErrMultipleInputs, <<>>)]
       ELSE IF o.AbsOutputDir = "" /\ o.CodeSplitting
       THEN [st EXCEPT !.log = AddError(@, ErrSplittingOutdir, <<>>)]
       ELSE IF o.AbsOutputFile # "" /\ o.AbsOutputDir # ""
       THEN [st EXCEPT !.log = AddError(@, ErrBothOut, <<>>)]
       ELSE IF o.AbsOutputFile # ""
       THEN [st EXCEPT !.options.AbsOutputDir = FsDir(realFS, o.AbsOutputFile),
                       !.options.WriteToStdout = TRUE]
       ELSE IF o.AbsOutputDir = ""
       THEN buildStdoutChecks(st, realFS)
       ELSE st

buildOutputPath(st, count, realFS) ==
    LET o == st.options
    IN IF o.AbsOutputDir = "" /\ count > 1
       THEN [st EXCEPT !.log = AddError(@, ErrMultipleInputs, <<>>)]
       ELSE IF o.AbsOutputDir = "" /\ o.CodeSplitting
       THEN [st EXCEPT !.log = AddError(@, ErrSplittingOutdir, <<>>)]
       ELSE IF o.AbsOutputFile # "" /\ o.AbsOutputDir # ""
       THEN [st EXCEPT !.log = AddError(@, ErrBothOut, <<>>)]
       ELSE IF o.AbsOutputFile # ""
       THEN [st EXCEPT !.options.AbsOutputDir = FsDir(realFS, o.AbsOutputFile)]
       ELSE IF o.AbsOutputDir = ""
       THEN buildStdoutChecks(st, realFS)
       ELSE st

\* bundling checks that leave an unspecified format as it is
buildBundlingNoDefault(st) ==
    LET o == st.options
    IN IF ~o.IsBundling
       THEN LET l1 == IF o.OutputFormat # "config.FormatPreserve"
                      THEN AddError(st.log, ErrFormatNoBundle, <<>>) ELSE st.log
                l2 == IF Cardinality(o.ExternalModules.NodeModules) > 0
                         \/ Cardinality(o.ExternalModules.AbsPaths) > 0
                      THEN AddError(l1, ErrExternalNoBundle, <<>>) ELSE l1
            IN [st EXCEPT !.log = l2]
       ELSE st

\* lines 487-503: options that need bundling, and the default format
buildBundling(st) ==
    LET o == st.options
    IN IF ~o.IsBundling
       THEN LET l1 == IF o.OutputFormat # "config.FormatPreserve"
                      THEN AddError(st.log, ErrFormatNoBundle, <<>>) ELSE st.log
                l2 == IF Cardinality(o.ExternalModules.NodeModules) > 0
                         \/ Cardinality(o.ExternalModules.AbsPaths) > 0
                      THEN AddError(l1, ErrExternalNoBundle, <<>>) ELSE l1
            IN [st EXCEPT !.log = l2]
       ELSE IF o.OutputFormat = "config.FormatPreserve"
       THEN CASE o.Platform = "config.PlatformBrowser" ->
                     [st EXCEPT !.options.OutputFormat = "config.FormatIIFE"]
              [] o.Platform = "config.PlatformNode" ->
                     [st EXCEPT !.options.OutputFormat = "config.FormatCommonJS"]
              [] OTHER -> st
       ELSE st

\* a splitting check that rejects every format
buildSplittingAnyFormat(st) ==
    IF st.options.CodeSplitting
    THEN [st EXCEPT !.log = AddError(@, ErrSplittingFormat, <<>>)]
    ELSE st

\* lines 505-508
buildSplitting(st) ==
    IF st.options.CodeSplitting /\ st.options.OutputFormat # "config.FormatESModule"
    THEN [st EXCEPT !.log = AddError(@, ErrSplittingFormat, <<>>)]
    ELSE st

\* lines 400-510: everything buildImpl does before it looks at log.HasErrors()
buildValidate(buildOpts, realFS, iter, fst) ==
    LET lit == buildOptionsLiteral(NewLog, buildOpts, realFS, iter)
        entries == validateEntryPoints(lit.log, <<>>, realFS, buildOpts.EntryPoints)
        stdin == buildStdin([log |-> entries.log, options |-> lit.options], buildOpts, realFS)
        out == buildOutputPath(stdin, entryPathCount(buildOpts), realFS)
        bundling == buildBundling(out)
        splitting == buildSplitting(bundling)
        plugins == loadPlugins([options |-> splitting.options, log |-> splitting.log,
                                fst |-> fst], buildOpts.Plugins)
    IN [log |-> plugins.log, options |-> plugins.options, fst |-> plugins.fst,
        entryPaths |-> entries.val]

----------------------------------------------------------------------------
(* buildImpl: the gates, the collaborators and the result *)

\* a build that forgets the gate after validation
mayScanAlways(l) == TRUE

\* line 515 and line 521: "Stop now if there were errors"
mayScan(l) == ~HasErrors(l)
mayCompile(l) == ~HasErrors(l)

\* lines 526-535: one public output record per unit the compiler returned
RECURSIVE buildOutputFiles(_, _)
buildOutputFiles(results, o) ==
    IF results = <<>> THEN <<>>
    ELSE <<[Path |-> IF o.WriteToStdout THEN "<stdout>" ELSE Head(results).AbsPath,
            Contents |-> Head(results).Contents]>>
         \o buildOutputFiles(Tail(results), o)

\* lines 539-544
buildResult(l, outputFiles) ==
    [Errors |-> convertMessagesToPublic("error", Done(l)),
     Warnings |-> convertMessagesToPublic("warning", Done(l)),
     OutputFiles |-> outputFiles]

\* what bundler.ScanBundle may add to the log
ScanOutcomes ==
    { <<>>,
      <<Msg("warning", "scan warning", <<>>)>>,
      <<Msg("error", "Could not resolve", <<>>)>> }

\* the user callbacks of the model's plugins: "cb" returns JSON content and a warning,
\* "cbFail" returns a failure together with content, an unknown loader kind and an error
UserCallbacks ==
    [cb |-> [path \in {"/cwd/conf.yaml"} |->
               [response |-> [Contents |-> "{}", Loader |-> "LoaderJSON", Errors |-> <<>>,
                              Warnings |-> <<[Text |-> "A", Location |-> NilLocation]>>],
                err |-> NilError]],
     cbFail |-> [path \in {"/cwd/conf.yaml"} |->
               [response |-> [Contents |-> "{}", Loader |-> "Loader(99)",
                              Errors |-> <<[Text |-> "B", Location |-> NilLocation]>>,
                              Warnings |-> <<>>],
                err |-> "yaml broke"]]]

\* the Scanner loads a file through the loader lp: it invokes lp.Callback and logs the
\* load error, or else the messages of the result
RECURSIVE ScanLogMsgs(_)
ScanLogMsgs(msgs) ==
    IF msgs = <<>> THEN <<>>
    ELSE <<Msg(Head(msgs).Kind, Head(msgs).Text, <<>>)>> \o ScanLogMsgs(Tail(msgs))

ScanLoad(lp) ==
    LET args == [Path |-> "/cwd/conf.yaml"]
        r == Callback(UserCallbacks[lp.Callback], args)
    IN [msgs |-> IF r.LoaderError # NilError THEN <<Msg("error", r.LoaderError, <<>>)>>
                 ELSE ScanLogMsgs(r.Msgs),
        adapter |-> [callback |-> UserCallbacks[lp.Callback], args |-> args, result |-> r]]

\* the runs of bundler.ScanBundle: what it adds to the log and, when one of the inputs
\* leads it to a file a loader claims, the Callback invocation it made
ScanRuns(opts, entryPaths) ==
    {[msgs |-> m, adapter |-> NoAdapter] : m \in ScanOutcomes}
    \cup (IF Len(entryPaths) = 0 /\ opts.Stdin.isNil THEN {}
          ELSE {ScanLoad(opts.LoaderPlugins[i]) : i \in DOMAIN opts.LoaderPlugins})

\* what bundle.Compile may return and add to the log
OutJS == [AbsPath |-> "/cwd/out.js", Contents |-> "js"]
OutMap == [AbsPath |-> "/cwd/out.js.map", Contents |-> "map"]
CompileOutcomes ==
    { [results |-> <<>>, msgs |-> <<>>],
      [results |-> <<OutJS>>, msgs |-> <<Msg("warning", "compile warning", <<>>)>>],
      [results |-> <<OutJS, OutMap>>, msgs |-> <<Msg("error", "No matching export", <<>>)>>] }

----------------------------------------------------------------------------
(* The Build calls the model makes *)

EntryFile(i) == "entry" \o ToString(i) \o ".ts"

\* the options that decide the output destination, the format and the gates
MainOptions ==
    [Stdin : BOOLEAN,
     Outfile : {"", "out.js"}, Outdir : {"", "dist"}, Metafile : {"", "meta.json"},
     Sourcemap : SourceMaps, Bundle : BOOLEAN, Splitting : BOOLEAN,
     Format : Formats, Platform : Platforms]

\* a plugin that registers one loader, and one that forgets to set its name
GoodPlugin == <<CallSetName("yaml"), CallAddLoader("\\.yaml$", FALSE, "cb")>>
BadPlugin == <<CallAddLoader("\\.yaml$", FALSE, "cb")>>
FailingPlugin == <<CallSetName("yaml"), CallAddLoader("\\.yaml$", FALSE, "cbFail")>>

\* the remaining options and the environment: all at their zero values, or one of them set
ExtraDefault ==
    [Externals |-> <<>>, Loaders |-> <<>>, ResolveExtensions |-> NilSlice,
     Plugins |-> <<>>, cwdOk |-> TRUE]
ExtraProfiles ==
    << ExtraDefault,
       [ExtraDefault EXCEPT !.Externals = <<"pkg">>],
       [ExtraDefault EXCEPT !.Externals = <<"./ext">>],
       [ExtraDefault EXCEPT !.Loaders = ExtPNG :> "LoaderFile"],
       [ExtraDefault EXCEPT !.Loaders = ExtNoDot :> "LoaderJS"],
       [ExtraDefault EXCEPT !.ResolveExtensions = Slice(<<ExtNoDot>>)],
       [ExtraDefault EXCEPT !.Plugins = <<GoodPlugin>>],
       [ExtraDefault EXCEPT !.Plugins = <<BadPlugin>>],
       [ExtraDefault EXCEPT !.Plugins = <<FailingPlugin>>],
       [ExtraDefault EXCEPT !.cwdOk = FALSE],
       [ExtraDefault EXCEPT !.cwdOk = FALSE, !.Externals = <<"./ext">>] >>

BuildOptions(n, m, e) ==
    [EntryPoints |-> [i \in 1..n |-> EntryFile(i)],
     Stdin |-> IF m.Stdin
               THEN [isNil |-> FALSE, Loader |-> "LoaderJS", ResolveDir |-> ""]
               ELSE NoStdin,
     Outfile |-> m.Outfile, Outdir |-> m.Outdir, Metafile |-> m.Metafile,
     Sourcemap |-> m.Sourcemap, Bundle |-> m.Bundle, Splitting |-> m.Splitting,
     Format |-> m.Format, Platform |-> m.Platform,
     Externals |-> e.Externals, Loaders |-> e.Loaders,
     ResolveExtensions |-> e.ResolveExtensions, Plugins |-> e.Plugins]

NoCall == [api |-> "none"]
NoOptions == [none |-> TRUE]
NoScan == [none |-> TRUE]
NoResult == [none |-> TRUE]
NoImpl == [none |-> TRUE]
NoObs ==
    [firstName |-> "", last |-> [op |-> "none"], before |-> NoImpl, sessions |-> 0, calls |-> 0,
     builds |-> 0, got |-> <<>>]
\* the most compileFilter calls that run concurrently
MaxGoroutines == 3

Goroutines == 1..MaxGoroutines
GoIdle == [pc |-> "idle", filter |-> "", result |-> NilRegexp, ok |-> FALSE]
NoGoroutines == [g \in Goroutines |-> GoIdle]
NoHist ==
    [validateErr |-> FALSE, scanErr |-> FALSE, scan |-> FALSE, compile |-> FALSE,
     units |-> <<>>]

Init ==
    /\ pc = "idle"
    /\ call = NoCall
    /\ options = NoOptions
    /\ log = NewLog
    /\ hist = NoHist
    /\ scanArgs = NoScan
    /\ result = NoResult
    /\ filterState = NoFilters
    /\ session = NoImpl
    /\ obs = NoObs
    /\ adapter = NoAdapter
    /\ goroutines = NoGoroutines
    /\ filterMutex = 0

\* buildImpl up to line 515
BuildValidate ==
    /\ pc = "idle"
    /\ \E k \in 0..MaxEntries, i \in DOMAIN ExtraProfiles, m \in MainOptions :
         LET e == ExtraProfiles[i]
             b == BuildOptions(MaxEntries - k, m, e)
         IN \E iter \in Iterations(DOMAIN b.Loaders) :
              LET realFS == RealFS(e.cwdOk)
                  v == buildValidate(b, realFS, iter, filterState)
              IN /\ call' = [api |-> "Build", opts |-> b, fs |-> realFS, iter |-> iter,
                             entryPaths |-> v.entryPaths]
                 /\ log' = v.log
                 /\ options' = v.options
                 /\ filterState' = v.fst
                 /\ hist' = [hist EXCEPT !.validateErr = HasErrors(v.log)]
                 /\ IF mayScan(v.log)
                    THEN pc' = "scan" /\ result' = result
                    ELSE pc' = "done" /\ result' = buildResult(v.log, <<>>)
    /\ UNCHANGED <<scanArgs, pluginVars, adapterVars, goVars>>

\* lines 517-521: NewResolver and ScanBundle
BuildScan ==
    /\ pc = "scan"
    /\ call.api = "Build"
    /\ \E run \in ScanRuns(options, call.entryPaths) :
         /\ log' = log \o run.msgs
         /\ adapter' = run.adapter
         /\ hist' = [hist EXCEPT !.scan = TRUE, !.scanErr = HasErrors(log \o run.msgs)]
         /\ scanArgs' = [fs |-> call.fs, entryPaths |-> call.entryPaths, options |-> options]
         /\ IF mayCompile(log \o run.msgs)
            THEN pc' = "compile" /\ result' = result
            ELSE pc' = "done" /\ result' = buildResult(log \o run.msgs, <<>>)
    /\ UNCHANGED <<call, options, filterState, pluginVars, goVars>>

\* lines 523-544: Compile, the output records and the result
BuildCompile ==
    /\ pc = "compile"
    /\ call.api = "Build"
    /\ \E out \in CompileOutcomes :
         /\ log' = log \o out.msgs
         /\ hist' = [hist EXCEPT !.compile = TRUE]
         /\ result' = buildResult(log \o out.msgs, buildOutputFiles(out.results, options))
    /\ pc' = "done"
    /\ UNCHANGED <<call, options, scanArgs, filterState, pluginVars, adapterVars, goVars>>

Next == BuildValidate \/ BuildScan \/ BuildCompile

Spec == Init /\ [][Next]_vars

----------------------------------------------------------------------------
(* transformImpl *)

\* the largest number of output units Compile returns to a Transform call
MaxUnits == 3

\* a transform that forgets the gate after validation
transformMayScanAlways(l) == TRUE

\* lines 603 and 610: "Stop now if there were errors"
transformMayScan(l) == ~HasErrors(l)
transformMayCompile(l) == ~HasErrors(l)

\* lines 563-598: defaults, the Options literal and the source-map checks
transformValidate(input, transformOpts) ==
    LET sourcefile == IF transformOpts.Sourcefile = "" THEN "<stdin>"
                      ELSE transformOpts.Sourcefile
        loader == IF transformOpts.Loader = "LoaderNone" THEN "LoaderJS"
                  ELSE transformOpts.Loader
        o == [SourceMap |-> validateSourceMap(transformOpts.Sourcemap),
              AbsOutputFile |-> sourcefile \o "-out",
              Stdin |-> [isNil |-> FALSE,
                         Loader |-> validateLoader(loader),
                         Contents |-> input,
                         SourceFile |-> sourcefile]]
        l1 == IF o.SourceMap = "config.SourceMapLinkedWithComment"
              THEN AddError(NewLog, ErrLinkedSourceMap, <<>>) ELSE NewLog
        l2 == IF o.SourceMap # "config.SourceMapNone" /\ o.Stdin.SourceFile = ""
              THEN AddError(l1, ErrNeedSourcefile, <<>>) ELSE l1
    IN [log |-> l2, options |-> o]

\* an unpack that falls back to the first unit when it cannot tell the units apart
transformUnpackFirstUnit(results) ==
    IF Len(results) = 0 THEN [js |-> "", jsSourceMap |-> ""]
    ELSE IF Len(results) = 2 /\ results[1].AbsPath = results[2].AbsPath \o ".map"
    THEN [js |-> results[2].Contents, jsSourceMap |-> results[1].Contents]
    ELSE IF Len(results) = 2 /\ results[1].AbsPath \o ".map" = results[2].AbsPath
    THEN [js |-> results[1].Contents, jsSourceMap |-> results[2].Contents]
    ELSE [js |-> results[1].Contents, jsSourceMap |-> ""]

\* lines 616-630: which unit is the code and which the source map (nil is "")
transformUnpack(results) ==
    IF Len(results) = 1 THEN [js |-> results[1].Contents, jsSourceMap |-> ""]
    ELSE IF Len(results) = 2
    THEN LET a == results[1]
             b == results[2]
         IN IF a.AbsPath = b.AbsPath \o ".map"
            THEN [js |-> b.Contents, jsSourceMap |-> a.Contents]
            ELSE IF a.AbsPath \o ".map" = b.AbsPath
            THEN [js |-> a.Contents, jsSourceMap |-> b.Contents]
            ELSE [js |-> "", jsSourceMap |-> ""]
    ELSE [js |-> "", jsSourceMap |-> ""]

\* lines 632-638
transformResult(l, results) ==
    [Errors |-> convertMessagesToPublic("error", Done(l)),
     Warnings |-> convertMessagesToPublic("warning", Done(l)),
     JS |-> transformUnpack(results).js,
     JSSourceMap |-> transformUnpack(results).jsSourceMap]

\* the units bundle.Compile may return to a Transform call
TransformUnits ==
    { [AbsPath |-> "<stdin>-out", Contents |-> "js"],
      [AbsPath |-> "<stdin>-out.map", Contents |-> "map"],
      [AbsPath |-> "chunk.js", Contents |-> "chunk"] }

TransformResults ==
    UNION {[1..n -> TransformUnits] : n \in 0..MaxUnits}

TransformOptions ==
    [Sourcemap : SourceMaps, Sourcefile : {"", "a.ts"}, Loader : {"LoaderNone", "LoaderTS"}]

\* transformImpl up to line 603
TransformValidate ==
    /\ pc = "idle"
    /\ \E t \in TransformOptions :
         LET v == transformValidate("let x = 1", t)
         IN /\ call' = [api |-> "Transform", opts |-> t, input |-> "let x = 1"]
            /\ log' = v.log
            /\ options' = v.options
            /\ hist' = [hist EXCEPT !.validateErr = HasErrors(v.log)]
            /\ IF transformMayScan(v.log)
               THEN pc' = "scan" /\ result' = result
               ELSE pc' = "done" /\ result' = transformResult(v.log, <<>>)
    /\ UNCHANGED <<scanArgs, filterState, pluginVars, adapterVars, goVars>>

\* lines 605-610: MockFS, NewResolver and ScanBundle
TransformScan ==
    /\ pc = "scan"
    /\ call.api = "Transform"
    /\ \E msgs \in ScanOutcomes :
         /\ log' = log \o msgs
         /\ hist' = [hist EXCEPT !.scan = TRUE, !.scanErr = HasErrors(log \o msgs)]
         /\ scanArgs' = [fs |-> MockFS, entryPaths |-> <<>>, options |-> options]
         /\ IF transformMayCompile(log \o msgs)
            THEN pc' = "compile" /\ result' = result
            ELSE pc' = "done" /\ result' = transformResult(log \o msgs, <<>>)
    /\ UNCHANGED <<call, options, filterState, pluginVars, adapterVars, goVars>>

\* lines 612-638: Compile, the unpacking and the result
TransformCompile ==
    /\ pc = "compile"
    /\ call.api = "Transform"
    /\ \E results \in TransformResults, msgs \in {<<>>, <<Msg("error", "compile error", <<>>)>>} :
         /\ log' = log \o msgs
         /\ hist' = [hist EXCEPT !.compile = TRUE, !.units = results]
         /\ result' = transformResult(log \o msgs, results)
    /\ pc' = "done"
    /\ UNCHANGED <<call, options, scanArgs, filterState, pluginVars, adapterVars, goVars>>

NextTransform == TransformValidate \/ TransformScan \/ TransformCompile

SpecTransform == Init /\ [][NextTransform]_vars

----------------------------------------------------------------------------
(* The extension validators on their own *)

\* the longest extension string, and the most entries of a list or keys of a map
MaxExtLen == 3
MaxExts == 2

ExtChars == {".", "a"}
ExtStrings == UNION {[1..n -> ExtChars] : n \in 0..MaxExtLen}

\* validateResolveExtensions(log, order)
ExtValidateResolve ==
    /\ pc = "idle"
    /\ \E n \in 0..MaxExts : \E order \in [1..n -> ExtStrings] :
         LET v == validateResolveExtensions(NewLog, Slice(order))
         IN /\ call' = [api |-> "validateResolveExtensions", order |-> order]
            /\ log' = v.log
            /\ options' = [ExtensionOrder |-> v.val]
    /\ pc' = "done"
    /\ UNCHANGED <<hist, scanArgs, result, filterState, pluginVars, adapterVars, goVars>>

\* validateLoaders(log, loaders)
ExtValidateLoaders ==
    /\ pc = "idle"
    /\ \E keys \in SUBSET ExtStrings :
         /\ Cardinality(keys) <= MaxExts
         /\ \E loaders \in [keys -> {"LoaderJS", "LoaderFile"}], iter \in Iterations(keys) :
              LET v == validateLoaders(NewLog, loaders, iter)
              IN /\ call' = [api |-> "validateLoaders", loaders |-> loaders, iter |-> iter]
                 /\ log' = v.log
                 /\ options' = [ExtensionToLoader |-> v.val]
    /\ pc' = "done"
    /\ UNCHANGED <<hist, scanArgs, result, filterState, pluginVars, adapterVars, goVars>>

NextExt == ExtValidateResolve \/ ExtValidateLoaders

SpecExt == Init /\ [][NextExt]_vars

----------------------------------------------------------------------------
(* loadPlugins, one call of a setup callback at a time *)

\* the most plugin sessions and the most SetName / AddLoader calls of one run
MaxPlugins == 2
MaxCalls == 4

PluginNames == {"", "a", "b"}
PluginFilters == {"", "\\.yaml$", "\\.svg$", "("}

\* line 776: a fresh pluginImpl for the next plugin of the list
PluginBegin ==
    /\ pc \in {"idle", "plugins"}
    /\ session = NoImpl
    /\ obs.sessions < MaxPlugins
    /\ pc' = "plugins"
    /\ call' = [api |-> "loadPlugins"]
    /\ log' = IF pc = "idle" THEN NewLog ELSE log
    /\ options' = IF pc = "idle" THEN [LoaderPlugins |-> <<>>] ELSE options
    /\ session' = NewPluginImpl(IF pc = "idle" THEN NewLog ELSE log)
    /\ obs' = [obs EXCEPT !.firstName = "", !.last = [op |-> "none"], !.before = NoImpl,
                          !.sessions = @ + 1,
                          !.builds = IF pc = "idle" THEN @ + 1 ELSE @]
    /\ UNCHANGED <<hist, scanArgs, result, filterState, adapterVars, goVars>>

\* line 777: the setup callback calls plugin.SetName(name)
PluginSetName ==
    /\ pc = "plugins" /\ session # NoImpl
    /\ obs.calls < MaxCalls
    /\ \E name \in PluginNames :
         /\ session' = SetName(session, name)
         /\ log' = SetName(session, name).log
         /\ obs' = [obs EXCEPT !.firstName = IF @ = "" THEN name ELSE @,
                               !.last = CallSetName(name),
                               !.before = session,
                               !.calls = @ + 1]
    /\ UNCHANGED <<pc, call, options, hist, scanArgs, result, filterState,
                 adapterVars, goVars>>

\* line 777: the setup callback calls plugin.AddLoader(options, callback)
PluginAddLoader ==
    /\ pc = "plugins" /\ session # NoImpl
    /\ obs.calls < MaxCalls
    /\ \E filter \in PluginFilters, matchInternal \in BOOLEAN :
         LET c == CallAddLoader(filter, matchInternal, "cb")
             r == AddLoader(session, filterState, c, c.callback)
         IN /\ session' = r.impl
            /\ log' = r.impl.log
            /\ filterState' = r.fst
            /\ obs' = [obs EXCEPT
                   !.last = c, !.before = session, !.calls = @ + 1,
                   !.got = IF Len(r.impl.loaders) > Len(session.loaders)
                           THEN Append(@, [re |-> r.impl.loaders[Len(r.impl.loaders)].Filter,
                                           loader |-> r.impl.loaders[Len(r.impl.loaders)],
                                           build |-> obs.builds,
                                           session |-> obs.sessions])
                           ELSE @]
    /\ UNCHANGED <<pc, call, options, hist, scanArgs, result, adapterVars, goVars>>

\* a return that puts the plugin's loaders in front of those of the plugins before it
PluginEndInFront ==
    /\ pc = "plugins" /\ session # NoImpl
    /\ options' = [options EXCEPT !.LoaderPlugins = session.loaders \o @]
    /\ session' = NoImpl
    /\ UNCHANGED <<pc, call, log, hist, scanArgs, result, filterState, obs,
                   adapterVars, goVars>>

\* line 778: the setup callback returned; its loaders join the Options
PluginEnd ==
    /\ pc = "plugins" /\ session # NoImpl
    /\ options' = [options EXCEPT !.LoaderPlugins = @ \o session.loaders]
    /\ session' = NoImpl
    /\ UNCHANGED <<pc, call, log, hist, scanArgs, result, filterState, obs,
                 adapterVars, goVars>>

\* line 780: loadPlugins returned; the call it served ends and its Options are dropped
PluginsReturn ==
    /\ pc = "plugins" /\ session = NoImpl
    /\ pc' = "idle"
    /\ call' = NoCall
    /\ options' = NoOptions
    /\ log' = NewLog
    /\ UNCHANGED <<hist, scanArgs, result, filterState, session, obs, adapterVars, goVars>>

NextPlugin ==
    PluginBegin \/ PluginSetName \/ PluginAddLoader \/ PluginEnd \/ PluginsReturn

SpecPlugin == Init /\ [][NextPlugin]_vars

----------------------------------------------------------------------------
(* The Callback of an installed loader, one invocation at a time *)

\* the most messages (errors plus warnings) one user callback returns
MaxMsgs == 3

\* the messages, the loader kinds and the failures user callbacks return in the model
Locations ==
    {NilLocation, Location("a.js", 1, 0), Location("a.js", 1, 3), Location("a.js", 5, 0),
     Location("b.js", 1, 0)}
Messages == [Text : {"A", "B"}, Location : Locations]
MessageLists(n) == UNION {[1..k -> Messages] : k \in 0..n}
ResponseLoaders == {"LoaderNone", "LoaderJSON", "Loader(99)"}
Failures == {NilError, "yaml broke"}
LoadedPath == "/cwd/conf.yaml"

\* the Scanner invokes the Callback of a loader on a path
AdapterInvoke ==
    /\ pc = "idle"
    /\ \E errors \in MessageLists(MaxMsgs), loader \in ResponseLoaders, err \in Failures :
       \E warnings \in MessageLists(MaxMsgs - Len(errors)) :
         LET response == [Contents |-> "{}", Loader |-> loader, Errors |-> errors,
                          Warnings |-> warnings]
             callback == [path \in {LoadedPath} |-> [response |-> response, err |-> err]]
             args == [Path |-> LoadedPath]
         IN adapter' = [callback |-> callback, args |-> args,
                        result |-> Callback(callback, args)]
    /\ pc' = "loaded"
    /\ UNCHANGED <<call, options, log, hist, scanArgs, result, filterState, pluginVars, goVars>>

\* the Scanner has taken the result
AdapterReturn ==
    /\ pc = "loaded"
    /\ pc' = "idle"
    /\ adapter' = NoAdapter
    /\ UNCHANGED <<call, options, log, hist, scanArgs, result, filterState, pluginVars, goVars>>

NextAdapter == AdapterInvoke \/ AdapterReturn

SpecAdapter == Init /\ [][NextAdapter]_vars

----------------------------------------------------------------------------
(* compileFilter called from concurrent goroutines (the AddLoader calls of concurrent *)
(* Build calls), one statement at a time                                             *)

GoFilters == {"", "\\.yaml$", "("}

\* line 667: a goroutine calls compileFilter(filter); lines 668-672
GoCall(g) ==
    /\ pc = "idle"
    /\ goroutines[g].pc = "idle"
    /\ \E filter \in GoFilters :
         goroutines' = [goroutines EXCEPT ![g] =
             [pc |-> IF filter = "" THEN "done" ELSE "lock1",
              filter |-> filter, result |-> NilRegexp, ok |-> FALSE]]
    /\ UNCHANGED <<callVars, filterState, pluginVars, adapterVars, filterMutex>>

\* line 677: filterMutex.Lock() of the lookup
GoLockLookup(g) ==
    /\ goroutines[g].pc = "lock1"
    /\ filterMutex = 0
    /\ filterMutex' = g
    /\ goroutines' = [goroutines EXCEPT ![g].pc = "lookup"]
    /\ UNCHANGED <<callVars, filterState, pluginVars, adapterVars>>

\* lines 679-681: result, ok = filterCache[filter]
GoLookup(g) ==
    /\ goroutines[g].pc = "lookup"
    /\ LET filter == goroutines[g].filter
       IN goroutines' = [goroutines EXCEPT ![g] =
              IF filter \in DOMAIN filterState.cache
              THEN [@ EXCEPT !.pc = "unlock1", !.result = filterState.cache[filter],
                             !.ok = TRUE]
              ELSE [@ EXCEPT !.pc = "unlock1"]]
    /\ UNCHANGED <<callVars, filterState, pluginVars, adapterVars, filterMutex>>

\* a miss that goes on to compile without releasing the mutex
GoUnlockLookupOnHitOnly(g) ==
    /\ goroutines[g].pc = "unlock1"
    /\ filterMutex' = IF goroutines[g].ok THEN 0 ELSE filterMutex
    /\ goroutines' = [goroutines EXCEPT ![g].pc = IF goroutines[g].ok THEN "done" ELSE "compile"]
    /\ UNCHANGED <<callVars, filterState, pluginVars, adapterVars>>

\* line 678 (deferred Unlock) and lines 683-685: return on a hit
GoUnlockLookup(g) ==
    /\ goroutines[g].pc = "unlock1"
    /\ filterMutex' = 0
    /\ goroutines' = [goroutines EXCEPT ![g].pc = IF goroutines[g].ok THEN "done" ELSE "compile"]
    /\ UNCHANGED <<callVars, filterState, pluginVars, adapterVars>>

\* lines 688-691: regexp.Compile, and return nil when it fails
GoCompile(g) ==
    /\ goroutines[g].pc = "compile"
    /\ LET c == RegexpCompile(filterState, goroutines[g].filter)
       IN IF c.ok
          THEN /\ goroutines' = [goroutines EXCEPT ![g].pc = "lock2", ![g].result = c.re]
               /\ filterState' = [filterState EXCEPT !.made[goroutines[g].filter] = @ + 1]
          ELSE /\ goroutines' = [goroutines EXCEPT ![g].pc = "done", ![g].result = NilRegexp]
               /\ filterState' = filterState
    /\ UNCHANGED <<callVars, pluginVars, adapterVars, filterMutex>>

\* line 694: filterMutex.Lock() of the insert
GoLockStore(g) ==
    /\ goroutines[g].pc = "lock2"
    /\ filterMutex = 0
    /\ filterMutex' = g
    /\ goroutines' = [goroutines EXCEPT ![g].pc = "store"]
    /\ UNCHANGED <<callVars, filterState, pluginVars, adapterVars>>

\* lines 696-699: make the map if it is nil, filterCache[filter] = result
GoStore(g) ==
    /\ goroutines[g].pc = "store"
    /\ filterState' = [filterState EXCEPT
           !.cache = [f \in DOMAIN @ \cup {goroutines[g].filter} |->
                         IF f = goroutines[g].filter THEN goroutines[g].result ELSE @[f]]]
    /\ goroutines' = [goroutines EXCEPT ![g].pc = "unlock2"]
    /\ UNCHANGED <<callVars, pluginVars, adapterVars, filterMutex>>

\* line 695 (deferred Unlock) and line 699: return
GoUnlockStore(g) ==
    /\ goroutines[g].pc = "unlock2"
    /\ filterMutex' = 0
    /\ goroutines' = [goroutines EXCEPT ![g].pc = "done"]
    /\ UNCHANGED <<callVars, filterState, pluginVars, adapterVars>>

\* the steps of a call that has begun
GoStep(g) ==
    \/ GoLockLookup(g)
    \/ GoLookup(g)
    \/ GoUnlockLookup(g)
    \/ GoCompile(g)
    \/ GoLockStore(g)
    \/ GoStore(g)
    \/ GoUnlockStore(g)

NextFilter == \E g \in Goroutines : GoCall(g) \/ GoStep(g)

SpecFilter == Init /\ [][NextFilter]_vars

\* the Go scheduler runs every goroutine that can take a step
SpecFilterFair == SpecFilter /\ \A g \in Goroutines : WF_vars(GoStep(g))

----------------------------------------------------------------------------
(* validateDefines on its own *)

\* the most defines and the most pure-function paths of one call
MaxDefines == 2
MaxPure == 1

\* a, a.b, a.1, 1.2, a. and the empty key
DefineKeys ==
    { <<"a">>, <<"a", ".", "b">>, <<"a", ".", "1">>, <<"1", ".", "2">>, <<"a", ".">>, <<>> }
DefineValues == {"b", "null", "[1]", "{"}

DefinesValidate ==
    /\ pc = "idle"
    /\ \E keys \in SUBSET DefineKeys :
         /\ Cardinality(keys) <= MaxDefines
         /\ \E defines \in [keys -> DefineValues], iter \in Iterations(keys),
               n \in 0..MaxPure :
            \E pureFns \in [1..n -> DefineKeys] :
              LET v == validateDefines(NewLog, defines, iter, pureFns)
              IN /\ call' = [api |-> "validateDefines", defines |-> defines, iter |-> iter,
                             pureFns |-> pureFns]
                 /\ log' = v.log
                 /\ options' = [Defines |-> [isNil |-> v.isNil, rawDefines |-> v.rawDefines]]
    /\ pc' = "done"
    /\ UNCHANGED <<hist, scanArgs, result, filterState, pluginVars, adapterVars, goVars>>

NextDefines == DefinesValidate

SpecDefines == Init /\ [][NextDefines]_vars

----------------------------------------------------------------------------
(* Claims about Build, checked under Spec *)

InBuild == call.api = "Build" /\ pc # "idle"

\* the log holds exactly what validation logged
JustValidated == InBuild /\ ~hist.scan

OnlyError(text) == <<[Text |-> text, Arg |-> <<>>]>>

\* the inputs of the call: its entry points, plus one for a stdin unit
InputCount == Len(call.opts.EntryPoints) + (IF call.opts.Stdin.isNil THEN 0 ELSE 1)

\* this call's validation of other options, in the same environment
ValidationLog(buildOpts) == buildValidate(buildOpts, call.fs, call.iter, NoFilters).log

\* C1: when the log holds an error once validation (plugin registration included) has
\* finished, neither Scan nor Compile is invoked and no output file is returned; when it
\* holds an error after Scan, Compile is not invoked and no output file is returned.
C1_GatesStopBuild ==
    InBuild =>
        /\ hist.validateErr =>
              (~hist.scan /\ ~hist.compile /\ pc = "done" /\ result.OutputFiles = <<>>)
        /\ hist.scanErr => (~hist.compile /\ pc = "done" /\ result.OutputFiles = <<>>)

\* a Build whose only error comes from a plugin that added a loader before naming itself
C1_Witness ==
    /\ InBuild /\ pc = "done" /\ hist.validateErr
    /\ result.Errors = OnlyError(ErrNoName)
    /\ ~hist.scan

\* C2 (as claimed): a returned Build result with errors has no output files, whichever
\* stage logged the error.
C2_ErrorsImplyNoOutput ==
    (InBuild /\ pc = "done" /\ result.Errors # <<>>) => result.OutputFiles = <<>>

\* C4: with more than one input (entry points plus stdin) and no outdir, validation logs
\* the multiple-input-files error and no output file is returned; when the options would
\* be valid with an outdir in place of any outfile, it is the only error returned.
C4_MultipleInputsNeedOutdir ==
    (InBuild /\ call.opts.Outdir = "" /\ InputCount > 1) =>
        /\ CountText(log, ErrMultipleInputs) = 1
        /\ pc = "done"
        /\ result.OutputFiles = <<>>
        /\ ~HasErrors(ValidationLog([call.opts EXCEPT !.Outdir = "dist", !.Outfile = ""]))
              => result.Errors = OnlyError(ErrMultipleInputs)

\* two entry points, bundle, no outfile and no outdir: exactly the one error
C4_Witness ==
    /\ InBuild /\ pc = "done"
    /\ Len(call.opts.EntryPoints) = 2 /\ call.opts.Bundle
    /\ call.opts.Outfile = "" /\ call.opts.Outdir = ""
    /\ result.Errors = OnlyError(ErrMultipleInputs)
    /\ result.OutputFiles = <<>>

\* C5: with outfile and outdir both set, and options that are valid once outfile is
\* dropped, validation yields exactly one error, the conflict, and no output file.
C5_OutfileAndOutdirConflict ==
    (/\ InBuild
     /\ call.opts.Outfile # "" /\ call.opts.Outdir # ""
     /\ ~HasErrors(ValidationLog([call.opts EXCEPT !.Outfile = ""]))) =>
        /\ pc = "done"
        /\ result.Errors = OnlyError(ErrBothOut)
        /\ result.OutputFiles = <<>>

C5_Witness ==
    /\ InBuild /\ pc = "done"
    /\ call.opts.Outfile # "" /\ call.opts.Outdir # ""
    /\ Len(call.opts.EntryPoints) = 2
    /\ result.Errors = OnlyError(ErrBothOut)

\* what enabling splitting adds to the errors of the same options without it
SplittingAdds ==
    ErrorCount(log) - ErrorCount(ValidationLog([call.opts EXCEPT !.Splitting = FALSE]))

SplittingByFormat ==
    SplittingAdds = IF call.opts.Format = "FormatESModule" THEN 0 ELSE 1

\* the outdir option is set and the file system resolved it
OutdirResolved == validatePath(NewLog, call.fs, call.opts.Outdir).val # ""

\* C6 (as claimed): enabling splitting adds no validation error for the ES-module format
\* and exactly one for any other format, whatever the other options are.
C6_SplittingAddsByFormat ==
    (JustValidated /\ call.opts.Splitting) => SplittingByFormat

\* C6 (amended): the same, for option sets with a resolved outdir or more than one input.
C6_SplittingAddsByFormatWithOutdir ==
    (/\ JustValidated /\ call.opts.Splitting
     /\ (OutdirResolved \/ InputCount > 1)) => SplittingByFormat

\* splitting with the ES-module format and an outdir passes validation
C6_Witness ==
    /\ JustValidated /\ pc = "scan"
    /\ call.opts.Splitting /\ call.opts.Format = "FormatESModule"
    /\ OutdirResolved
    /\ SplittingAdds = 0

StdoutErrors ==
    /\ options.WriteToStdout
    /\ call.opts.Sourcemap \notin {"SourceMapNone", "SourceMapInline"}
          => CountText(log, ErrStdoutSourceMap) = 1
    /\ options.AbsMetadataFile # "" => CountText(log, ErrStdoutMetafile) = 1
    /\ (\E ext \in DOMAIN call.opts.Loaders : call.opts.Loaders[ext] = "LoaderFile")
          => CountText(log, ErrStdoutFileLoader) = 1

\* C7 (as claimed): with neither outfile nor outdir, write-to-stdout is selected and each
\* of the three stdout conditions that holds logs its own error, whatever else is violated.
C7_StdoutChecksAlways ==
    (InBuild /\ call.opts.Outfile = "" /\ call.opts.Outdir = "") => StdoutErrors

\* C7 (amended): the same, for builds with at most one input and splitting disabled.
C7_StdoutChecksSingleInput ==
    (/\ InBuild /\ call.opts.Outfile = "" /\ call.opts.Outdir = ""
     /\ InputCount <= 1 /\ ~call.opts.Splitting) => StdoutErrors

\* sourcemap and metafile errors are both logged, next to the error of another rule
C7_Witness ==
    /\ InBuild /\ call.opts.Outfile = "" /\ call.opts.Outdir = ""
    /\ options.WriteToStdout
    /\ CountText(log, ErrStdoutSourceMap) = 1
    /\ CountText(log, ErrStdoutMetafile) = 1
    /\ CountText(log, ErrFormatNoBundle) = 1

\* every entry of the externals list failed to resolve, each with its own error
ExternalsAllInvalid ==
    \A i \in 1..Len(call.opts.Externals) :
        \E j \in 1..Len(log) : log[j] = Msg("error", ErrInvalidPath, <<call.opts.Externals[i]>>)

DefaultedFormat ==
    IF call.opts.Format # "FormatDefault" THEN validateFormat(call.opts.Format)
    ELSE IF call.opts.Platform = "PlatformBrowser" THEN "config.FormatIIFE"
    ELSE "config.FormatCommonJS"

\* C8: without bundle an explicit format logs an error and a non-empty externals list logs
\* an error; with bundle the format handed to Scan is the explicit one, or IIFE for the
\* browser and CommonJS for node when none was given, and so never "preserve".
C8_BundlingGatedOptions ==
    InBuild =>
        /\ (~call.opts.Bundle /\ call.opts.Format # "FormatDefault")
              => CountText(log, ErrFormatNoBundle) = 1
        /\ (~call.opts.Bundle /\ call.opts.Externals # <<>>)
              => (CountText(log, ErrExternalNoBundle) = 1 \/ ExternalsAllInvalid)
        /\ (hist.scan /\ call.opts.Bundle)
              => /\ scanArgs.options.OutputFormat = DefaultedFormat
                 /\ scanArgs.options.OutputFormat # "config.FormatPreserve"

\* a bundle for node with no format reaches Scan as CommonJS
C8_Witness ==
    /\ InBuild /\ hist.scan
    /\ call.opts.Bundle /\ call.opts.Format = "FormatDefault"
    /\ call.opts.Platform = "PlatformNode"
    /\ scanArgs.options.OutputFormat = "config.FormatCommonJS"

----------------------------------------------------------------------------
(* Claims about Transform, checked under SpecTransform *)

InTransform == call.api = "Transform" /\ pc # "idle"

NoTransformOutput == pc = "done" /\ result.JS = "" /\ result.JSSourceMap = ""

\* C3: when validation logged an error, Scan and Compile are not invoked and the code and
\* the source map are empty; when Scan logged an error, Compile is not invoked and both
\* are empty; Scan always gets an in-memory file system, no entry paths and the stdin unit.
C3_GatesStopTransform ==
    InTransform =>
        /\ hist.validateErr => (~hist.scan /\ ~hist.compile /\ NoTransformOutput)
        /\ hist.scanErr => (~hist.compile /\ NoTransformOutput)
        /\ hist.scan => /\ scanArgs.fs.kind = "mock"
                        /\ scanArgs.entryPaths = <<>>
                        /\ ~scanArgs.options.Stdin.isNil

\* a Transform asked for a linked source map returns that one error and nothing else
C3_Witness ==
    /\ InTransform /\ pc = "done"
    /\ call.opts.Sourcemap = "SourceMapLinked"
    /\ result.Errors = OnlyError(ErrLinkedSourceMap)
    /\ ~hist.scan /\ ~hist.compile
    /\ result.JS = "" /\ result.JSSourceMap = ""

----------------------------------------------------------------------------
(* Claims about the extension validators, checked under SpecExt *)

RECURSIVE Occurrences(_, _)
Occurrences(seq, x) ==
    IF seq = <<>> THEN 0
    ELSE (IF Head(seq) = x THEN 1 ELSE 0) + Occurrences(Tail(seq), x)

\* the 'Invalid file extension' errors of the log that cite ext
RECURSIVE ExtErrors(_, _)
ExtErrors(l, ext) ==
    IF l = <<>> THEN 0
    ELSE (IF Head(l) = Msg("error", ErrInvalidExt, ext) THEN 1 ELSE 0) + ExtErrors(Tail(l), ext)

\* the extension strings the claim calls invalid
ClaimedInvalid(ext) ==
    Len(ext) < 2 \/ ext[1] # "." \/ ext[2] = "." \/ ext[Len(ext)] = "."

\* C9 (as claimed): each entry of the resolve-extension list and each key of the loader
\* map that is shorter than two characters, does not begin with '.', has '.' as its second
\* character or ends with '.' logs exactly one error citing it, any other entry logs none,
\* and every entry is passed through to the Options.
C9_InvalidExtensionsReported ==
    /\ (pc = "done" /\ call.api = "validateResolveExtensions") =>
          /\ options.ExtensionOrder = call.order
          /\ \A ext \in ExtStrings :
                ExtErrors(log, ext) =
                    IF ClaimedInvalid(ext) THEN Occurrences(call.order, ext) ELSE 0
    /\ (pc = "done" /\ call.api = "validateLoaders") =>
          \A ext \in DOMAIN call.loaders :
              /\ ExtErrors(log, ext) = IF ClaimedInvalid(ext) THEN 1 ELSE 0
              /\ ext \in DOMAIN options.ExtensionToLoader
              /\ options.ExtensionToLoader[ext] = validateLoader(call.loaders[ext])

----------------------------------------------------------------------------
(* Claims about a plugin session, checked under SpecPlugin *)

InSession == pc = "plugins" /\ session # NoImpl

\* C10: the session name is the first non-empty name passed to SetName (unset if there
\* was none); a later SetName with a non-empty name logs exactly one 'cannot be set
\* multiple times' error and changes nothing else; every installed loader carries the
\* session's non-empty name.
C10_NameSetOnce ==
    InSession =>
        /\ session.name = obs.firstName
        /\ (obs.last.op = "SetName" /\ obs.last.name # "" /\ obs.before.name # "")
              => session = [obs.before EXCEPT !.log = Append(@, Msg("error", ErrNameTwice, <<>>))]
        /\ \A i \in 1..Len(session.loaders) :
              session.loaders[i].Name = session.name /\ session.loaders[i].Name # ""

\* SetName("a"), AddLoader, SetName("b"): one error, the name is still "a"
C10_Witness ==
    /\ InSession
    /\ obs.last = CallSetName("b")
    /\ obs.before.name = "a"
    /\ session.name = "a"
    /\ Len(session.loaders) = 1
    /\ CountText(log, ErrNameTwice) = 1

\* C11: an AddLoader call made before the session has a name, or with an empty filter,
\* or with a pattern that does not compile, logs exactly one error and leaves the
\* loader list as it was; every other AddLoader call logs nothing and appends exactly
\* one loader at the end of the list.
AddLoaderRejected ==
    \/ obs.before.name = ""
    \/ obs.last.Filter = ""
    \/ obs.last.Filter \notin ValidPatterns

C11_AddLoaderFrame ==
    (InSession /\ obs.last.op = "AddLoader") =>
        IF AddLoaderRejected
        THEN /\ session.loaders = obs.before.loaders
             /\ Len(session.log) = Len(obs.before.log) + 1
             /\ SubSeq(session.log, 1, Len(obs.before.log)) = obs.before.log
             /\ session.log[Len(session.log)].kind = "error"
        ELSE /\ session.log = obs.before.log
             /\ Len(session.loaders) = Len(obs.before.loaders) + 1
             /\ SubSeq(session.loaders, 1, Len(obs.before.loaders)) = obs.before.loaders
             /\ session.loaders[Len(session.loaders)].Filter.pattern = obs.last.Filter

\* a named session with one loader installed, then an AddLoader whose pattern does not compile
C11_Witness ==
    /\ InSession
    /\ obs.last.op = "AddLoader" /\ obs.last.Filter = "("
    /\ obs.before.name = "a"
    /\ Len(obs.before.loaders) = 1
    /\ Len(session.loaders) = 1
    /\ CountText(session.log, ErrBadFilter) = 1

\* C12: when a registration with a valid pattern has completed before another
\* registration with the identical pattern string begins, in the same Build or in a
\* later one, the pattern is compiled exactly once in total and both registrations hold
\* the same matcher.
C12_SecondRegistrationHits ==
    \A i, j \in 1..Len(obs.got) :
        (i < j /\ obs.got[i].re.pattern = obs.got[j].re.pattern)
            => /\ obs.got[j].re = obs.got[i].re
               /\ filterState.made[obs.got[i].re.pattern] = 1

\* the same pattern registered in two Build calls, one after the other
C12_Witness ==
    /\ Len(obs.got) = 2
    /\ obs.got[1].re.pattern = obs.got[2].re.pattern
    /\ obs.got[1].build = 1 /\ obs.got[2].build = 2
    /\ filterState.made[obs.got[1].re.pattern] = 1

----------------------------------------------------------------------------
(* Claims about the loader Callback, checked under SpecAdapter *)

Invoked == adapter # NoAdapter
Returned == adapter.callback[adapter.args.Path]
Succeeded == Invoked /\ Returned.err = NilError /\ ~adapter.result.panic

\* how many messages of the list have this kind, text and location
CountMsg(msgs, kind, m) ==
    Cardinality({i \in DOMAIN msgs :
        msgs[i].Kind = kind /\ msgs[i].Text = m.Text /\ msgs[i].Location = m.Location})
CountMessage(messages, m) == Cardinality({i \in DOMAIN messages : messages[i] = m})

\* file, then line, then column, then text
LocatedInOrder(m, n) ==
    \/ StringLess(m.Location.File, n.Location.File)
    \/ /\ m.Location.File = n.Location.File
       /\ \/ m.Location.Line < n.Location.Line
          \/ /\ m.Location.Line = n.Location.Line
             /\ \/ m.Location.Column < n.Location.Column
                \/ /\ m.Location.Column = n.Location.Column
                   /\ (m.Text = n.Text \/ StringLess(m.Text, n.Text))

\* C13: after a successful callback that returned diagnostics, the Callback's message
\* list is a permutation of the returned errors and warnings, every message without a
\* location precedes every message with one, and the located messages are in
\* non-decreasing order by file, line, column and text.
C13_MessagesSorted ==
    (Succeeded /\ Len(Returned.response.Errors) + Len(Returned.response.Warnings) > 0) =>
        LET msgs == adapter.result.Msgs
        IN /\ Len(msgs) = Len(Returned.response.Errors) + Len(Returned.response.Warnings)
           /\ \A m \in Messages :
                /\ CountMsg(msgs, "error", m) = CountMessage(Returned.response.Errors, m)
                /\ CountMsg(msgs, "warning", m) = CountMessage(Returned.response.Warnings, m)
           /\ \A i, j \in DOMAIN msgs :
                i < j => /\ ~(msgs[j].Location.isNil /\ ~msgs[i].Location.isNil)
                         /\ (~msgs[i].Location.isNil /\ ~msgs[j].Location.isNil)
                                => LocatedInOrder(msgs[i], msgs[j])

\* an error at a.js:5 and one at a.js:1:3, then a warning without a location: the
\* warning comes first, the line-5 error last
C13_Witness ==
    /\ Succeeded
    /\ Returned.response.Errors =
          <<[Text |-> "A", Location |-> Location("a.js", 5, 0)],
            [Text |-> "A", Location |-> Location("a.js", 1, 3)]>>
    /\ Returned.response.Warnings = <<[Text |-> "B", Location |-> NilLocation]>>
    /\ adapter.result.Msgs[1].Kind = "warning"
    /\ adapter.result.Msgs[3].Location.Line = 5

\* the orders a plugin can append the same messages in
Reorderings(messages) ==
    {l \in [DOMAIN messages -> Messages] : \A m \in Messages :
        CountMessage(l, m) = CountMessage(messages, m)}

\* C14: two callback results with the same errors and the same warnings, appended in
\* different orders, give the identical ordered message list.
C14_OrderIndependent ==
    Succeeded =>
        \A errors \in Reorderings(Returned.response.Errors) :
        \A warnings \in Reorderings(Returned.response.Warnings) :
            LET other == [path \in {adapter.args.Path} |->
                            [Returned EXCEPT !.response.Errors = errors,
                                             !.response.Warnings = warnings]]
            IN Callback(other, adapter.args).Msgs = adapter.result.Msgs

----------------------------------------------------------------------------
(* Claims about a Build that loads a file through a plugin, checked under Spec *)

LoadFailed == InBuild /\ Invoked /\ Returned.err # NilError

\* C16: when a loader callback returns a failure, the Callback's result carries that
\* failure as its load error and has no content, no loader kind and no messages,
\* whatever was returned alongside; the Callback does not panic; and the Build that
\* loaded the file returns exactly one error, the failure text, and no output files.
C16_CallbackFailure ==
    LoadFailed =>
        /\ adapter.result =
              [panic |-> FALSE, LoaderError |-> Returned.err, Contents |-> "",
               Loader |-> "config.LoaderNone", Msgs |-> <<>>]
        /\ pc = "done"
        /\ Len(result.Errors) = 1
        /\ result.Errors[1].Text = Returned.err
        /\ result.OutputFiles = <<>>
        /\ ~hist.compile

\* the failing callback returned content, an unknown loader kind and an error as well
C16_Witness ==
    /\ LoadFailed
    /\ Returned.response.Contents # ""
    /\ Returned.response.Loader \notin Loaders
    /\ Len(Returned.response.Errors) = 1
    /\ pc = "done"
    /\ result.Errors = <<[Text |-> "yaml broke", Arg |-> <<>>]>>

----------------------------------------------------------------------------
(* Claims about loadPlugins, checked under SpecPlugin *)

\* the loaders that the registrations i..Len(obs.got) installed in build b, sessions lo..hi
RECURSIVE InstalledFrom(_, _, _, _)
InstalledFrom(i, b, lo, hi) ==
    IF i > Len(obs.got) THEN <<>>
    ELSE (IF obs.got[i].build = b /\ obs.got[i].session \in lo..hi
          THEN <<obs.got[i].loader>> ELSE <<>>)
         \o InstalledFrom(i + 1, b, lo, hi)

\* C15: setup callbacks run one at a time, each on a fresh session, and the loader list
\* of the Options is the concatenation, in plugin order, of the loaders each finished
\* plugin of this loadPlugins call installed, in the order of its AddLoader calls; no
\* loader is reordered, duplicated or taken from another plugin or another Build.
C15_LoadersInPluginOrder ==
    pc = "plugins" =>
        /\ options.LoaderPlugins =
              InstalledFrom(1, obs.builds, 1,
                            IF session = NoImpl THEN obs.sessions ELSE obs.sessions - 1)
        /\ session # NoImpl =>
              /\ session.loaders = InstalledFrom(1, obs.builds, obs.sessions, obs.sessions)
              /\ obs.last.op = "none" => (session.name = "" /\ session.loaders = <<>>)

\* two plugins of one Build have returned: "a" installed a loader, then "b" another one
C15_Witness ==
    /\ pc = "plugins" /\ session = NoImpl
    /\ obs.builds = 1 /\ obs.sessions = 2
    /\ Len(options.LoaderPlugins) = 2
    /\ options.LoaderPlugins[1].Name = "a" /\ options.LoaderPlugins[2].Name = "b"
    /\ options.LoaderPlugins[1].Filter # options.LoaderPlugins[2].Filter

----------------------------------------------------------------------------
(* Claims about the Options handed to Scan, checked under Spec *)

HandedToScan == InBuild /\ scanArgs # NoScan

Exactly1(flags) == Cardinality({i \in DOMAIN flags : flags[i]}) = 1

\* C17 (as claimed): in every Options value handed to Scan exactly one of these holds:
\* AbsOutputFile is set, AbsOutputDir is set, WriteToStdout is true.
C17_OneDestinationField ==
    HandedToScan =>
        Exactly1(<<scanArgs.options.AbsOutputFile # "",
                   scanArgs.options.AbsOutputDir # "",
                   scanArgs.options.WriteToStdout>>)

\* C17 (amended): in every Options value handed to Scan exactly one destination is
\* active, the single output file being active when AbsOutputFile is set, write-to-stdout
\* when WriteToStdout is true, and the output directory when neither is and AbsOutputDir
\* is set; with an output file, AbsOutputDir is set as well, to the file's directory.
C17_OneDestinationMode ==
    HandedToScan =>
        LET o == scanArgs.options
        IN /\ Exactly1(<<o.AbsOutputFile # "",
                         o.WriteToStdout,
                         o.AbsOutputFile = "" /\ ~o.WriteToStdout /\ o.AbsOutputDir # "">>)
           /\ o.AbsOutputFile # "" => o.AbsOutputDir = FsDir(scanArgs.fs, o.AbsOutputFile)

\* a Build with outfile alone reaches Scan with the file and its directory both set
C17_Witness ==
    /\ HandedToScan
    /\ call.opts.Outfile # "" /\ call.opts.Outdir = ""
    /\ scanArgs.options.AbsOutputFile # ""
    /\ scanArgs.options.AbsOutputDir # ""
    /\ ~scanArgs.options.WriteToStdout

----------------------------------------------------------------------------
(* Claims about concurrent compileFilter calls, checked under SpecFilter *)

\* C18: under every interleaving of concurrent registrations of the identical valid
\* pattern, the pattern is compiled at most once in the life of the process.
C18_CompiledAtMostOnce ==
    \A p \in ValidPatterns : filterState.made[p] <= 1

\* the goroutines between a Lock and the Unlock that follows it
Holding == {g \in Goroutines : goroutines[g].pc \in {"lookup", "unlock1", "store", "unlock2"}}

LockDiscipline ==
    /\ Cardinality(Holding) <= 1
    /\ \A g \in Goroutines :
         /\ g \in Holding <=> filterMutex = g
         /\ goroutines[g].pc \in {"compile", "done"} => filterMutex # g

CacheAccessUnderLock ==
    filterState.cache' # filterState.cache
        => (filterMutex \in Goroutines /\ goroutines[filterMutex].pc = "store")

\* C19: every read and write of the cache map is made by the goroutine holding
\* filterMutex, at most one goroutine holds it, none holds it while compiling or after
\* returning (a failed compilation included), and every call that has begun returns.
C19_MutexScope ==
    /\ []LockDiscipline
    /\ [][CacheAccessUnderLock]_vars
    /\ \A g \in Goroutines :
         (goroutines[g].pc # "idle") ~> (goroutines[g].pc = "done" /\ filterMutex # g)

\* one goroutine compiles while another holds the mutex for its lookup, and a third has
\* returned from a compilation that failed
C19_Witness ==
    \E g1, g2, g3 \in Goroutines :
        /\ goroutines[g1].pc = "compile"
        /\ goroutines[g2].pc = "lookup" /\ filterMutex = g2
        /\ goroutines[g3].pc = "done" /\ goroutines[g3].filter = "("

CacheEntriesCompiled ==
    \A f \in DOMAIN filterState.cache :
        f \in ValidPatterns /\ filterState.cache[f].pattern = f

CacheEntriesKept ==
    \A f \in DOMAIN filterState.cache :
        f \in DOMAIN filterState.cache' /\ filterState.cache'[f] = filterState.cache[f]

\* C20: under every interleaving the cache holds only patterns whose compilation
\* succeeded, and an entry, once made, is never removed and never replaced by another
\* matcher object.
C20_CacheEntriesImmutable ==
    /\ []CacheEntriesCompiled
    /\ [][CacheEntriesKept]_vars

----------------------------------------------------------------------------
(* Claims about Transform's unpack step, checked under SpecTransform *)

Returned2 == InTransform /\ pc = "done"

IsMapOf(m, c) == m.AbsPath = c.AbsPath \o ".map"

\* the messages validation, Scan and Compile add to the log of a Transform call
TransformTexts ==
    {ErrLinkedSourceMap, ErrNeedSourcefile, "scan warning", "Could not resolve", "compile error"}

\* C23: with no units the code and the map are empty; with one unit the code is its
\* content and the map is empty; with two units of which one's path is the other's
\* followed by ".map", in either order, that one is the map and the other the code; in
\* every other case (two unrelated units, more than two) both are empty, and the result
\* holds no diagnostic besides those of validation, Scan and Compile.
C23_UnpackUnits ==
    Returned2 =>
        LET u == hist.units
            n == Len(u)
        IN /\ n = 0 => (result.JS = "" /\ result.JSSourceMap = "")
           /\ n = 1 => (result.JS = u[1].Contents /\ result.JSSourceMap = "")
           /\ n = 2 =>
                \A i, j \in {1, 2} :
                    (i # j /\ IsMapOf(u[i], u[j]))
                        => (result.JS = u[j].Contents /\ result.JSSourceMap = u[i].Contents)
           /\ (n > 2 \/ (n = 2 /\ ~IsMapOf(u[1], u[2]) /\ ~IsMapOf(u[2], u[1])))
                => (result.JS = "" /\ result.JSSourceMap = "")
           /\ Len(result.Errors) + Len(result.Warnings) = Len(log)
           /\ \A i \in DOMAIN log : log[i].text \in TransformTexts

\* Compile returned the map before the code
C23_Witness ==
    /\ Returned2 /\ hist.compile
    /\ Len(hist.units) = 2
    /\ hist.units[1].AbsPath = "<stdin>-out.map" /\ hist.units[2].AbsPath = "<stdin>-out"
    /\ result.JS = "js" /\ result.JSSourceMap = "map"
    /\ result.Errors = <<>>

----------------------------------------------------------------------------
(* Claims about validateDefines, checked under SpecDefines *)

DefinesChecked == call.api = "validateDefines" /\ pc = "done"

\* the keys of the model whose dot-separated segments are all identifiers
ValidDefineKeys == { <<"a">>, <<"a", ".", "b">> }

\* the values of the model that validateDefines accepts, and the rewrite each stands for
AcceptedValues == {"b", "null"}
ExpectedRewrite(value) ==
    IF value = "b" THEN [kind |-> "identifier", of |-> "b"]
    ELSE [kind |-> "literal", of |-> "ENull"]

KeyErrors(text, key) ==
    Cardinality({i \in DOMAIN log : log[i].text = text /\ log[i].arg = <<key>>})

Rewrite(table, key) ==
    IF key \in DOMAIN table THEN table[key].DefineFunc ELSE NilDefineFunc

\* C21: a define key with a segment that is not an identifier gets exactly one error and
\* no rewrite in the table, while every other key is processed: no key error, and the
\* rewrite of its value when the value is acceptable.
C21_InvalidKeySkipped ==
    DefinesChecked =>
        \A key \in DOMAIN call.defines :
            IF key \notin ValidDefineKeys
            THEN /\ KeyErrors(ErrDefineKey, key) = 1
                 /\ Rewrite(options.Defines.rawDefines, key) = NilDefineFunc
            ELSE /\ KeyErrors(ErrDefineKey, key) = 0
                 /\ call.defines[key] \in AcceptedValues =>
                       Rewrite(options.Defines.rawDefines, key)
                           = ExpectedRewrite(call.defines[key])

PureKeys == {call.pureFns[i] : i \in DOMAIN call.pureFns}

\* C22 (as claimed): every entry of the table has exactly one of the identifier rewrite
\* and the literal rewrite, entries made by a pure-function path included.
C22_EveryEntryHasRewrite ==
    DefinesChecked =>
        \A key \in DOMAIN options.Defines.rawDefines :
            options.Defines.rawDefines[key].DefineFunc.kind \in {"identifier", "literal"}

\* C22 (amended): an entry has exactly one of the identifier rewrite and the literal
\* rewrite when its key is a define with an acceptable value, and no rewrite otherwise
\* (an entry made by a pure-function path alone); the entries are those of the accepted
\* defines and of the pure paths; a pure path sets the flag of the entry and leaves the
\* rewrite as the defines alone give it.
C22_RewriteOnlyFromDefines ==
    DefinesChecked =>
        LET table == options.Defines.rawDefines
            alone == validateDefines(NewLog, call.defines, call.iter, <<>>).rawDefines
            accepted == {k \in DOMAIN call.defines : call.defines[k] \in AcceptedValues}
        IN /\ DOMAIN table = accepted \cup PureKeys
           /\ \A key \in DOMAIN table :
                /\ key \in accepted =>
                      table[key].DefineFunc = ExpectedRewrite(call.defines[key])
                /\ key \notin accepted => table[key].DefineFunc = NilDefineFunc
                /\ table[key].DefineFunc = Rewrite(alone, key)
                /\ table[key].CallCanBeUnwrappedIfUnused <=> key \in PureKeys

\* a is defined as the identifier b and is also a pure path; a.b is defined as null
C22_Witness ==
    /\ DefinesChecked
    /\ call.defines = (<<"a">> :> "b" @@ <<"a", ".", "b">> :> "null")
    /\ call.pureFns = << <<"a">> >>
    /\ options.Defines.rawDefines[<<"a">>] =
          [DefineFunc |-> [kind |-> "identifier", of |-> "b"],
           CallCanBeUnwrappedIfUnused |-> TRUE]
    /\ options.Defines.rawDefines[<<"a", ".", "b">>] =
          [DefineFunc |-> [kind |-> "literal", of |-> "ENull"],
           CallCanBeUnwrappedIfUnused |-> FALSE]

====
